---- MODULE Spec2Model ----
(***************************************************************************)
(* gpt-commit: one run of the command line tool, for both entry points of  *)
(* the repository:                                                         *)
(*   "__init__"   : gpt_commit() of src/gpt_commit/__init__.py             *)
(*   "gpt_commit" : gpt_commit() of src/gpt_commit/gpt_commit.py, which    *)
(*                  drives GitCommitHelper.commit_file_with_ai             *)
(* The repository is two paths (the target file and one other path), each  *)
(* with its content in HEAD, in the index and in the working tree.  The    *)
(* inference API and the editor are the environment: their answers are     *)
(* chosen nondeterministically where the code receives them.               *)
(***************************************************************************)
EXTENDS Naturals, Sequences, FiniteSets

VARIABLES
    entry,          \* which module's gpt_commit() runs
    args,           \* command line: model, list_models, dry_run, no_edit
    listed,         \* what client.models.list() yields in this run (<<>> on failure)
    start,          \* history: HEAD, index, working tree when the run starts
    head, index, wt,\* repository: path -> content
    commits,        \* commits created by the run: [tree, parent, message]
    invoked,        \* git operations invoked: subset of {"add", "commit"}
    added,          \* paths handed to the staging operation
    pc,             \* position of the run
    status,         \* how the process ended
    api,            \* calls made to the inference API, in order
    models,         \* local: models
    diff_msg,       \* local: diff_msg
    new_file_flag,  \* local: new_file_flag
    commit_msg,     \* local: commit_msg
    genMsg,         \* history: the message the Message Generator returned
    lastResp,       \* history: kind of the chat-completion outcome
    tmp,            \* the temporary commit-message file
    editor,         \* history: how the editor ended: "none", "quit", "saved"
    out             \* diagnostics printed

vars == <<entry, args, listed, start, head, index, wt, commits, invoked, added,
          pc, status, api, models, diff_msg, new_file_flag, commit_msg, genMsg,
          lastResp, tmp, editor, out>>

env == <<entry, args, listed, start>>
repo == <<head, index, wt, commits, invoked, added>>
locals == <<models, diff_msg, new_file_flag, commit_msg, genMsg, lastResp>>

(***************************************************************************)
(* Bounds and value sets                                                   *)
(***************************************************************************)
\* Longest message text (API answer, edited file) the model enumerates.
MaxMsgLen == 2

Chars == {" ", "x"}
Strings == UNION {[1..n -> Chars] : n \in 0..MaxMsgLen}

\* Python's None, kept apart from every text.
None == <<"None">>

Target == "foo.py"
Other == "other.py"
Paths == {Target, Other}

\* File contents are opaque; three blobs give every equality pattern of
\* HEAD / index / working tree for one path.
Absent == "absent"
Blobs == {"a", "b", "c"}
OtherBlobs == {"a", "b"}

DefaultModel == "openai/gpt-4.1"
ModelNames == {DefaultModel, "bogus"}

Range(s) == {s[i] : i \in 1..Len(s)}

(***************************************************************************)
(* Pure helpers                                                            *)
(***************************************************************************)
RECURSIVE LStrip(_)
LStrip(s) == IF s = <<>> THEN s
             ELSE IF Head(s) = " " THEN LStrip(Tail(s)) ELSE s

RECURSIVE RStrip(_)
RStrip(s) == IF s = <<>> THEN s
             ELSE IF s[Len(s)] = " " THEN RStrip(SubSeq(s, 1, Len(s) - 1)) ELSE s

\* str.strip()
Strip(s) == RStrip(LStrip(s))

\* Python truthiness of a str-or-None value: `not v`
Falsy(v) == v = None \/ v = <<>>

\* git's patch between two contents of one path: empty text when they agree.
Patch(from, to) == IF from = to THEN <<>> ELSE <<from, to>>

\* repo.git.diff(filename): index against working tree.
GitDiff(path) == Patch(index[path], wt[path])

\* repo.git.diff('HEAD', filename): HEAD against working tree.
GitDiffHead(path) == Patch(head[path], wt[path])

\* filename in repo.git.ls_files() / filename not in repo.untracked_files
Tracked(path) == index[path] # Absent

\* GitCommitHelper.get_diff, for a tracked path: `a or b`
GetDiff(path) == IF GitDiff(path) # <<>> THEN GitDiff(path) ELSE GitDiffHead(path)

\* edit = not no_edit
EditFlag == Falsy(args.no_edit)

\* A run that forgets the dry-run return.
DryRunIgnored == FALSE

\* `if dry_run: return`
DryRunReturns == args.dry_run

\* Staging that takes every path of the working tree (`git add -A`).
StageAll(path) == wt

\* the index after repo.git.add(path) / repo.index.add([path])
GitAdd(path) == [index EXCEPT ![path] = wt[path]]

\* chat-completion outcomes: raises, answers without choices, answers with text
Responses == {[kind |-> "error", content |-> <<>>],
              [kind |-> "nochoices", content |-> <<>>]}
             \cup {[kind |-> "content", content |-> s] : s \in Strings}

\* editor outcomes: quits without writing, or writes a text
EditorOutcomes == {[save |-> FALSE, content |-> <<>>]}
                  \cup {[save |-> TRUE, content |-> s] : s \in Strings}

GitOutcomes == {"ok", "add_fails", "commit_fails"}

NoFile == [exists |-> FALSE, content |-> <<>>, mtime |-> 0]

ListCall == [op |-> "list", model |-> "", diff |-> <<>>, new_file |-> FALSE]
ChatCall(m, d, f) == [op |-> "chat", model |-> m, diff |-> d, new_file |-> f]

(***************************************************************************)
(* Initial state: the command line, the environment and the repository.    *)
(* The target exists in the working tree (both entry points refuse a path  *)
(* that is not a file before anything else happens).                       *)
(***************************************************************************)
Init ==
    /\ entry \in {"__init__", "gpt_commit"}
    /\ args \in [model : ModelNames, list_models : BOOLEAN, dry_run : BOOLEAN,
                 no_edit : {None, <<"x">>}]
    /\ listed \in {<<>>, <<DefaultModel>>}
    /\ head \in {h \in [Paths -> Blobs \cup {Absent}] : h[Other] = "a"}
    /\ index \in {i \in [Paths -> Blobs \cup {Absent}] : i[Other] \in OtherBlobs}
    /\ wt \in {w \in [Paths -> Blobs] : w[Other] \in OtherBlobs}
    /\ start = [head |-> head, index |-> index, wt |-> wt]
    /\ commits = <<>>
    /\ invoked = {}
    /\ added = {}
    /\ pc = "start"
    /\ status = "running"
    /\ api = <<>>
    /\ models = <<>>
    /\ diff_msg = <<>>
    /\ new_file_flag = FALSE
    /\ commit_msg = None
    /\ genMsg = None
    /\ lastResp = "none"
    /\ tmp = NoFile
    /\ editor = "none"
    /\ out = {}

(***************************************************************************)
(* The Commit Step                                                         *)
(***************************************************************************)
\* The commit object repo.index.commit(message) creates: the whole index,
\* on top of the current HEAD.
NewCommit(idx, message) == [tree |-> idx, parent |-> head, message |-> message]

\* GitCommitHelper.stage_and_commit(filename, commit_message).  A failing
\* `git add` raises GitCommandError, which `except (OSError, ValueError)`
\* does not catch; a failing commit (OSError) is caught and reported.
HelperStageAndCommit(filename, message, g, prints) ==
    /\ added' = added \cup {filename}
    /\ wt' = wt
    /\ pc' = "done"
    /\ IF g = "add_fails"
       THEN /\ invoked' = invoked \cup {"add"}
            /\ UNCHANGED <<index, head, commits>>
            /\ out' = out \cup prints \cup {"traceback"}
            /\ status' = "crash"
       ELSE /\ invoked' = invoked \cup {"add", "commit"}
            /\ index' = GitAdd(filename)
            /\ status' = "ok"
            /\ IF g = "commit_fails"
               THEN /\ UNCHANGED <<head, commits>>
                    /\ out' = out \cup prints \cup {"commit_error"}
               ELSE /\ commits' = Append(commits, NewCommit(index', message))
                    /\ head' = index'
                    /\ out' = out \cup prints \cup {"committed"}

\* stage_and_commit(repo, filename, commit_msg_file) of __init__.py: the
\* message is read back from the file and stripped; every exception is
\* caught and reported.
InitStageAndCommit(filename, file, g, prints) ==
    /\ added' = added \cup {filename}
    /\ wt' = wt
    /\ commit_msg' = commit_msg
    /\ IF g = "add_fails"
       THEN /\ invoked' = invoked \cup {"add"}
            /\ UNCHANGED <<index, head, commits>>
            /\ out' = out \cup prints \cup {"commit_error"}
       ELSE /\ invoked' = invoked \cup {"add", "commit"}
            /\ index' = GitAdd(filename)
            /\ IF g = "commit_fails"
               THEN /\ UNCHANGED <<head, commits>>
                    /\ out' = out \cup prints \cup {"commit_error"}
               ELSE /\ commits' = Append(commits, NewCommit(index', Strip(file.content)))
                    /\ head' = index'
                    /\ out' = out \cup prints

(***************************************************************************)
(* Entry point "gpt_commit": src/gpt_commit/gpt_commit.py                  *)
(***************************************************************************)
\* --list-models: list and return.
HelperListModels ==
    /\ entry = "gpt_commit" /\ pc = "start"
    /\ args.list_models
    /\ api' = Append(api, ListCall)
    /\ models' = listed
    /\ out' = out \cup {"models_listed"}
    /\ pc' = "done"
    /\ status' = "ok"
    /\ UNCHANGED <<env, repo, diff_msg, new_file_flag, commit_msg, genMsg,
                   lastResp, tmp, editor>>

\* commit_file_with_ai up to the chat-completion call: get_diff and the
\* empty-diff return.  The model name is not looked up anywhere.
HelperGetDiff ==
    /\ entry = "gpt_commit" /\ pc = "start"
    /\ ~args.list_models
    /\ IF ~Tracked(Target)
       THEN \* FileNotFoundError, caught by no caller
            /\ pc' = "done" /\ status' = "crash"
            /\ out' = out \cup {"traceback"}
            /\ diff_msg' = diff_msg
       ELSE /\ diff_msg' = GetDiff(Target)
            /\ IF Falsy(diff_msg')
               THEN /\ pc' = "done" /\ status' = "ok"
                    /\ out' = out \cup {"no_changes"}
               ELSE /\ pc' = "generate" /\ status' = status
                    /\ out' = out
    /\ UNCHANGED <<env, repo, api, models, new_file_flag, commit_msg, genMsg,
                   lastResp, tmp, editor>>

\* generate_commit_message and what follows it up to the editor: failure
\* return, dry-run return, temporary file, or the commit without editing.
HelperGenerate ==
    /\ entry = "gpt_commit" /\ pc = "generate"
    /\ \E resp \in Responses, g \in GitOutcomes :
         LET msg == IF resp.kind = "content" THEN Strip(resp.content) ELSE None
             errs == IF resp.kind = "error" THEN {"error_generating"} ELSE {}
         IN  /\ api' = Append(api, ChatCall(args.model, diff_msg, FALSE))
             /\ lastResp' = resp.kind
             /\ commit_msg' = msg
             /\ genMsg' = msg
             /\ IF Falsy(msg)
                THEN /\ out' = out \cup errs \cup {"failed_generate"}
                     /\ pc' = "done" /\ status' = "ok"
                     /\ UNCHANGED <<repo, tmp>>
                ELSE IF DryRunReturns
                THEN /\ out' = out \cup {"generated"}
                     /\ pc' = "done" /\ status' = "ok"
                     /\ UNCHANGED <<repo, tmp>>
                ELSE IF EditFlag
                THEN /\ out' = out \cup {"generated"}
                     /\ tmp' = [exists |-> TRUE, content |-> msg, mtime |-> 0]
                     /\ pc' = "edit" /\ status' = status
                     /\ UNCHANGED repo
                ELSE /\ HelperStageAndCommit(Target, msg, g, {"generated"})
                     /\ tmp' = tmp
    /\ UNCHANGED <<env, models, diff_msg, new_file_flag, editor>>

\* click.edit returns; the file is read back and stripped; an empty message
\* aborts, anything else is committed.  The file is never unlinked.
HelperEdit ==
    /\ entry = "gpt_commit" /\ pc = "edit"
    /\ \E e \in EditorOutcomes, g \in GitOutcomes :
         LET file == IF e.save
                     THEN [exists |-> TRUE, content |-> e.content, mtime |-> tmp.mtime + 1]
                     ELSE tmp
             msg == Strip(file.content)
         IN  /\ tmp' = file
             /\ editor' = IF e.save THEN "saved" ELSE "quit"
             /\ commit_msg' = msg
             /\ IF Falsy(msg)
                THEN /\ out' = out \cup {"empty_abort"}
                     /\ pc' = "done" /\ status' = "ok"
                     /\ UNCHANGED repo
                ELSE HelperStageAndCommit(Target, msg, g, {})
    /\ UNCHANGED <<env, api, models, diff_msg, new_file_flag, genMsg, lastResp>>

(***************************************************************************)
(* Entry point "__init__": src/gpt_commit/__init__.py                      *)
(***************************************************************************)
\* The command declares --list-models and --model only: click rejects
\* --dry-run and --no-edit before the function body runs.
InitUsageError ==
    /\ entry = "__init__" /\ pc = "start"
    /\ args.dry_run \/ args.no_edit # None
    /\ pc' = "done" /\ status' = "usage"
    /\ out' = out \cup {"usage"}
    /\ UNCHANGED <<env, repo, api, locals, tmp, editor>>

\* gpt_commit() up to the chat-completion call: model listing, model check,
\* tracked check, classification of the file against HEAD.
InitMain ==
    /\ entry = "__init__" /\ pc = "start"
    /\ ~args.dry_run /\ args.no_edit = None
    /\ api' = Append(api, ListCall)
    /\ models' = listed
    /\ IF args.list_models
       THEN /\ out' = out \cup {"models_listed"}
            /\ pc' = "done" /\ status' = "ok"
            /\ UNCHANGED <<diff_msg, new_file_flag>>
       ELSE IF args.model \notin Range(models')
       THEN /\ out' = out \cup {"model_not_available"}
            /\ pc' = "done" /\ status' = "ok"
            /\ UNCHANGED <<diff_msg, new_file_flag>>
       ELSE IF ~Tracked(Target)
       THEN /\ out' = out \cup {"not_tracked"}
            /\ pc' = "done" /\ status' = "ok"
            /\ UNCHANGED <<diff_msg, new_file_flag>>
       ELSE IF head[Target] = Absent
       THEN \* a new-file entry of HEAD against the working tree
            /\ diff_msg' = <<wt[Target]>>
            /\ new_file_flag' = TRUE
            /\ pc' = "generate"
            /\ UNCHANGED <<out, status>>
       ELSE IF head[Target] # wt[Target]
       THEN \* a changed-file entry of HEAD against the working tree
            /\ diff_msg' = GitDiff(Target)
            /\ new_file_flag' = FALSE
            /\ pc' = "generate"
            /\ UNCHANGED <<out, status>>
       ELSE /\ out' = out \cup {"no_changes"}
            /\ pc' = "done" /\ status' = "ok"
            /\ UNCHANGED <<diff_msg, new_file_flag>>
    /\ UNCHANGED <<env, repo, commit_msg, genMsg, lastResp, tmp, editor>>

\* generate_commit_message (no exception handler) and the write of
\* commit_msg.txt: open(..., "w") creates the file before f.write(None)
\* raises TypeError.
InitGenerate ==
    /\ entry = "__init__" /\ pc = "generate"
    /\ \E resp \in Responses :
         LET msg == IF resp.kind = "content" THEN Strip(resp.content) ELSE None
         IN  /\ api' = Append(api, ChatCall(args.model, diff_msg, new_file_flag))
             /\ lastResp' = resp.kind
             /\ IF resp.kind = "error"
                THEN /\ out' = out \cup {"traceback"}
                     /\ pc' = "done" /\ status' = "crash"
                     /\ UNCHANGED <<commit_msg, genMsg, tmp>>
                ELSE IF msg = None
                THEN /\ commit_msg' = msg /\ genMsg' = msg
                     /\ tmp' = [exists |-> TRUE, content |-> <<>>, mtime |-> 0]
                     /\ out' = out \cup {"traceback"}
                     /\ pc' = "done" /\ status' = "crash"
                ELSE /\ commit_msg' = msg /\ genMsg' = msg
                     /\ tmp' = [exists |-> TRUE, content |-> msg, mtime |-> 0]
                     /\ out' = out
                     /\ pc' = "edit" /\ status' = status
    /\ UNCHANGED <<env, repo, models, diff_msg, new_file_flag, editor>>

\* click.edit returns; an unchanged st_mtime means no commit; otherwise
\* stage_and_commit; the file is unlinked either way (tmp keeps the content
\* the editor left, with exists = FALSE).
InitEdit ==
    /\ entry = "__init__" /\ pc = "edit"
    /\ \E e \in EditorOutcomes, g \in GitOutcomes :
         LET file == IF e.save
                     THEN [exists |-> TRUE, content |-> e.content, mtime |-> tmp.mtime + 1]
                     ELSE tmp
         IN  /\ editor' = IF e.save THEN "saved" ELSE "quit"
             /\ IF file.mtime = tmp.mtime
                THEN /\ out' = out \cup {"no_edit_changes"}
                     /\ UNCHANGED <<repo, commit_msg>>
                ELSE InitStageAndCommit(Target, file, g, {})
             /\ tmp' = [file EXCEPT !.exists = FALSE]
             /\ pc' = "done" /\ status' = "ok"
    /\ UNCHANGED <<env, api, models, diff_msg, new_file_flag, genMsg, lastResp>>

Next ==
    \/ HelperListModels
    \/ HelperGetDiff
    \/ HelperGenerate
    \/ HelperEdit
    \/ InitUsageError
    \/ InitMain
    \/ InitGenerate
    \/ InitEdit

Spec == Init /\ [][Next]_vars

(***************************************************************************)
(* Claims                                                                  *)
(***************************************************************************)
ChatCalls == {i \in 1..Len(api) : api[i].op = "chat"}
EditTaken == editor # "none"
RepoAsAtStart == head = start.head /\ index = start.index /\ wt = start.wt

\* C1: when the edit step is taken and the file's content ends identical to
\* the generated message, neither staging nor commit is invoked and the
\* temporary file no longer exists when the run ends.
C1_Claim ==
    (pc = "done" /\ EditTaken /\ tmp.content = genMsg)
        => (invoked = {} /\ commits = <<>> /\ ~tmp.exists)

\* C2: under --dry-run neither staging nor commit is ever invoked, the
\* repository stays as it was, no temporary file is made, and once the
\* generated message is printed the run has ended.
C2_DryRunNeverCommits ==
    args.dry_run =>
        /\ invoked = {} /\ added = {} /\ commits = <<>>
        /\ RepoAsAtStart
        /\ ~tmp.exists
        /\ ("generated" \in out => pc = "done" /\ status = "ok")

C2_Witness ==
    /\ args.dry_run /\ pc = "done"
    /\ "generated" \in out
    /\ ChatCalls # {}
    /\ ~Falsy(genMsg)

\* C3: when the edit step leaves a message that is empty after trimming, no
\* commit is created, a diagnostic is printed and the temporary file no
\* longer exists when the run ends.
C3_Claim ==
    (pc = "done" /\ EditTaken /\ Strip(tmp.content) = <<>>)
        => /\ commits = <<>>
           /\ out \cap {"empty_abort", "no_edit_changes", "commit_error"} # {}
           /\ ~tmp.exists

\* C4: a --model value that is not in the Model Lister's result (the empty
\* list when listing fails) aborts the run: no chat-completion call is made
\* and nothing is committed.
C4_Claim ==
    args.model \notin Range(listed) => (ChatCalls = {} /\ commits = <<>>)

\* C5: the temporary commit-message file is gone when the process has
\* exited, on every exit path.
C5_Claim == pc = "done" => ~tmp.exists

\* C6: for a tracked target whose working-tree content equals HEAD's, the
\* run makes no call to the inference API (listing or completion) and
\* leaves HEAD, index and working tree as they were.
C6_Claim ==
    (start.index[Target] # Absent /\ start.wt[Target] = start.head[Target])
        => (api = <<>> /\ RepoAsAtStart /\ commits = <<>>)

\* C7: when the chat-completion call raises or returns no choices, the
\* generator's result is absent, the failure is reported, no temporary file
\* is created or left, and neither staging nor commit is invoked.
C7_Claim ==
    lastResp \in {"error", "nochoices"}
        => /\ commit_msg = None
           /\ ~tmp.exists
           /\ invoked = {}
           /\ (pc = "done" => "failed_generate" \in out /\ status = "ok")

\* C8 (as stated): the commit step stages exactly the target and no path
\* other than the target differs between the new commit and its parent.
C8_Claim ==
    /\ added \subseteq {Target}
    /\ \A i \in 1..Len(commits) :
         \A p \in Paths \ {Target} : commits[i].tree[p] = commits[i].parent[p]

\* C8 (amended): the commit step stages exactly the target and commits the
\* whole index on top of HEAD: the target enters with its working-tree
\* content, and every other path enters with the index content it had when
\* the run started, so it differs from the parent exactly when it was
\* already staged.
C8_CommitsWholeIndex ==
    /\ added \subseteq {Target}
    /\ Len(commits) <= 1
    /\ \A i \in 1..Len(commits) :
         /\ added = {Target}
         /\ commits[i].parent = start.head
         /\ commits[i].tree[Target] = start.wt[Target]
         /\ \A p \in Paths \ {Target} :
              /\ commits[i].tree[p] = start.index[p]
              /\ (commits[i].tree[p] # commits[i].parent[p])
                    <=> (start.index[p] # start.head[p])

C8_Witness ==
    /\ pc = "done" /\ Len(commits) = 1
    /\ start.index[Other] # start.head[Other]
    /\ start.wt[Other] # start.index[Other]
    /\ commits[1].tree[Other] # commits[1].parent[Other]
    /\ commits[1].tree[Target] # commits[1].parent[Target]

\* C9: for an untracked target that reaches the Diff Extractor, "not
\* tracked" is reported and the run exits cleanly, with no chat-completion
\* call, no staging and no commit.
C9_Claim ==
    (/\ pc = "done"
     /\ start.index[Target] = Absent
     /\ ~args.list_models
     /\ status # "usage"
     /\ "model_not_available" \notin out)
        => /\ status = "ok"
           /\ "not_tracked" \in out
           /\ ChatCalls = {}
           /\ invoked = {}

\* C10: for a modified, tracked target, whatever the index holds, the diff
\* text passed to the Message Generator is the patch between HEAD and the
\* working tree for that path.
C10_Claim ==
    (/\ start.head[Target] # Absent
     /\ start.index[Target] # Absent
     /\ start.head[Target] # start.wt[Target])
        => \A i \in ChatCalls :
             api[i].diff = Patch(start.head[Target], start.wt[Target])
====
